---- MODULE Spec2Model ----
(***************************************************************************)
(* Order fulfilment of the storefront backend: the Razorpay webhook        *)
(* handler of server/routes/orderRoutes.js, the order store it reads and   *)
(* writes, the courier gateway it calls and the Socket.IO broadcast, with  *)
(* the admin dashboard's status update as the other writer of an order.    *)
(* Every await of the handler is one step, so deliveries interleave the    *)
(* way the Node event loop lets them.                                      *)
(* SpecGet is the GET /:orderId handler of the same file over the orders   *)
(* the webhook leaves in the store; SpecPoller is the tracking view of     *)
(* src/pages/TrackingOrders.tsx with its interval timer, its requests in   *)
(* flight and the store it polls.                                          *)
(***************************************************************************)
EXTENDS Integers, Sequences, FiniteSets, TLC

\* ------------------------------------------------------------------ bounds
MaxDeliveries == 2
MaxTicks == 3
\* newOrder events the server broadcasts in a run
MaxEvents == 2

\* ------------------------------------------------------------- the domain
Handlers == {"h1", "h2"}
OrderIds == {"O1"}
UnknownId == "OX"
NoUser == "null"
NoSig == <<>>
NoNotes == "notes-undefined"
NoId == "id-undefined"
Absent == [absent |-> TRUE]
NoDoc == Absent
NoShipment == Absent
NoAdminStatus == "undefined"

Users == {"U1"}

PaymentStatuses == {"pending", "paid", "failed"}
Statuses == <<"Created", "Placed", "Processing", "Shipping", "Delivered">>
Rank(s) == CHOOSE i \in 1..Len(Statuses) : Statuses[i] = s

\* ------------------------------------------------------------ server wiring
RAZORPAY_WEBHOOK_SECRET == "whsec"
ForgerSecret == "guess"
\* app.set is called for "trust proxy" alone; the Socket.IO server is kept in global.io
AppSettings == {"trust proxy"}
GlobalIo == "io"
AppGet(key) == IF key \in AppSettings THEN GlobalIo ELSE "undefined"

\* --------------------------------------------------------------- requests
\* A request body is its content and the way the sender laid out its bytes.
Events == {"payment_link.paid", "payment.captured"}
Forms == {"compact", "spaced"}
Signers == {"gateway", "forger", "none"}
Contents ==
    [event : {"payment_link.paid"}, notes : OrderIds \cup {UnknownId, NoId, NoNotes}]
        \cup [event : {"payment.captured"}, notes : {NoNotes}]

RawBody(content, form) == [content |-> content, form |-> form]
\* express.json(): the parsed body keeps the content and drops the layout
JsonParse(raw) == raw.content
\* JSON.stringify: always the compact layout
JsonStringify(content) == [content |-> content, form |-> "compact"]
\* crypto.createHmac('sha256', secret).update(bytes).digest('hex')
Hmac(secret, bytes) == <<secret, bytes>>

SignatureOf(signer, raw) ==
    CASE signer = "gateway" -> Hmac(RAZORPAY_WEBHOOK_SECRET, raw)
      [] signer = "forger" -> Hmac(ForgerSecret, raw)
      [] OTHER -> NoSig

\* what a sender puts on the wire: the gateway lays its body out either way, the
\* unsigned and the wrongly signed requests come in the compact layout
Wire == (Forms \X {"gateway"}) \cup ({"compact"} \X Signers)

Requests ==
    { [raw |-> RawBody(c, w[1]), signature |-> SignatureOf(w[2], RawBody(c, w[1]))] :
        c \in Contents, w \in Wire }

\* ------------------------------------------------------------------ state
VARIABLES
    webhookSecret,  \* process.env.RAZORPAY_WEBHOOK_SECRET as read at load
    orders,         \* the Order collection: id -> stored document
    cart,           \* the User collection: user -> cart
    hs,             \* the webhook requests in flight, one record per slot
    last,           \* the request that was answered last, as it ended
    courier,        \* the courier aggregator: order id -> shipments created
    nextShipment,   \* the aggregator's next shipment id
    broadcast,      \* the events emitted to the connected clients
    deliveries,     \* webhook requests received so far
    cartCleared,    \* user -> completed cart clears
    createCalls,    \* order id -> createShiprocketOrder calls
    overlap,        \* order id -> two deliveries for it were ever in flight together
    answered,       \* order id -> verified payment_link.paid deliveries answered
    faulted,        \* order id -> a call of an answered delivery for it has failed
    got,            \* the GET /:orderId request answered last
    mounted,        \* the tracking view: "no" (not yet), "yes", "gone" (torn down)
    status,         \* useState: 'loading' | 'polling' | 'success' | 'error'
    order,          \* useState: the order the view holds
    trackingData,   \* useState: the tracking history, or "null"
    errorMessage,   \* useState
    pollingIntervalRef, \* useRef: the id of the interval set last, 0 for null
    timers,         \* the browser's live interval timers
    nextTimer,      \* the id setInterval returns next
    calls,          \* fetchOrderAndTracking calls in flight: stage -> how many
    ticks,          \* timer ticks so far
    awbSeen,        \* an order reply with an AWB code has come in
    ticksAfterStop, \* ticks since such a reply or since the teardown
    afterTeardown,  \* HTTP requests issued after the teardown
    late,           \* a request has been outstanding for a whole tick period
    loaded,         \* how the initial load ended: "none", "pending", "noId", "awb",
                    \* "noAwb" or "fail"
    trackRequests,  \* tracking requests sent so far
    wasPolling,     \* status has been 'polling'
    trackReply,     \* the tracking reply that came in last, or "none"
    dash            \* the admin orders dashboard with its two sockets

handlerVars == <<webhookSecret, cart, hs, last, courier, nextShipment, broadcast,
                 deliveries, cartCleared, createCalls, overlap, answered, faulted>>

viewVars == <<mounted, status, order, trackingData, errorMessage, pollingIntervalRef,
              timers, nextTimer, calls, ticks, awbSeen, ticksAfterStop, afterTeardown,
              late, loaded, trackRequests, wasPolling, trackReply>>

clientVars == <<got, viewVars, dash>>

vars == <<webhookSecret, orders, cart, hs, last, courier, nextShipment, broadcast,
          deliveries, cartCleared, createCalls, overlap, answered, faulted,
          got, mounted, status, order, trackingData, errorMessage, pollingIntervalRef,
          timers, nextTimer, calls, ticks, awbSeen, ticksAfterStop, afterTeardown, late,
          loaded, trackRequests, wasPolling, trackReply, dash>>

\* an order as checkout leaves it; a guest order has no user
NewOrder(u) ==
    [paymentStatus |-> "pending", status |-> "Created", adminStatus |-> NoAdminStatus,
     shipmentDetails |-> NoShipment, user |-> u]

IdleH ==
    [pc |-> "idle", req |-> NoDoc, orderId |-> NoId, doc |-> NoDoc,
     dirty |-> {}, shiprocketOrder |-> 0, resp |-> 0, inspected |-> FALSE,
     reads |-> 0, writes |-> 0, cartCalls |-> 0, createCalls |-> 0, awbCalls |-> 0,
     emits |-> 0, found |-> "none", savedPaid |-> FALSE, faults |-> {},
     interfered |-> FALSE, awbArg |-> 0, afterFlag |-> FALSE,
     final |-> NoDoc]

\* no GET /:orderId request has been answered yet
NoGet == [caller |-> NoUser, orderId |-> NoId, code |-> 0, body |-> NoDoc,
          seen |-> NoDoc, ok |-> TRUE]

\* the stages of a fetchOrderAndTracking call: the order request sent (line 26), its
\* reply on the way back (with an AWB code, without one, or a failure), the tracking
\* request sent (line 32) and not yet, or already, a tick old
Stages == {"orderReq", "replyAwb", "replyNoAwb", "replyFail", "trackReq0", "trackReq1"}

\* the dashboard's socket (OrdersDashboard.tsx line 149) and the socket of the
\* notification component it embeds (OrderNotificationSound.tsx line 18)
Sockets == {"own", "sound"}

\* the newOrder events of a run, numbered as they are broadcast
NewOrderEvents == 1 .. MaxEvents

\* OrdersDashboard.tsx lines 48-56: the dashboard before its first render; nothing
\* is connected, broadcast or fetched
DashIdle ==
    [mounted |-> "no", sock |-> [s \in Sockets |-> "none"],
     inbox |-> [s \in Sockets |-> {}], emitted |-> 0,
     sentTo |-> [e \in NewOrderEvents |-> {}],
     handled |-> [e \in NewOrderEvents |-> 0],
     fetches |-> 0, loading |-> TRUE, renderDue |-> FALSE, soundSockets |-> 0]

\* lines 16-21: the tracking view before its first render
ViewIdle ==
    /\ mounted = "no"
    /\ status = "loading"
    /\ order = NoDoc
    /\ trackingData = "null"
    /\ errorMessage = ""
    /\ pollingIntervalRef = 0
    /\ timers = {}
    /\ nextTimer = 1
    /\ calls = [s \in Stages |-> 0]
    /\ ticks = 0
    /\ awbSeen = FALSE
    /\ ticksAfterStop = 0
    /\ afterTeardown = 0
    /\ late = FALSE
    /\ loaded = "none"
    /\ trackRequests = 0
    /\ wasPolling = FALSE
    /\ trackReply = "none"

Init ==
    /\ webhookSecret \in {RAZORPAY_WEBHOOK_SECRET, "undefined"}
    /\ orders \in [OrderIds -> {NewOrder(u) : u \in Users \cup {NoUser}}]
    /\ got = NoGet
    /\ ViewIdle
    /\ dash = DashIdle
    /\ cart = [u \in Users |-> <<"item">>]
    /\ hs = [h \in Handlers |-> IdleH]
    /\ last = IdleH
    /\ courier = [o \in OrderIds |-> 0]
    /\ nextShipment = 1
    /\ broadcast = <<>>
    /\ deliveries = 0
    /\ cartCleared = [u \in Users |-> 0]
    /\ createCalls = [o \in OrderIds |-> 0]
    /\ overlap = [o \in OrderIds |-> FALSE]
    /\ answered = [o \in OrderIds |-> 0]
    /\ faulted = [o \in OrderIds |-> FALSE]

\* ------------------------------------------------- the handler's pure parts
\* a check that lets a request without the header through
SignatureMatches_unlessMissing(signature, expected) ==
    signature = NoSig \/ signature = expected

\* line 42: signature !== expectedSignature
SignatureMatches(signature, expected) == signature = expected

\* lines 36-49: "ok", "invalid" (400) or "throws" (createHmac of an undefined key, 500)
VerifySignature(signature, body) ==
    IF webhookSecret = "undefined" THEN "throws"
    ELSE IF SignatureMatches(signature, Hmac(webhookSecret, JsonStringify(body)))
         THEN "ok" ELSE "invalid"

\* lines 56-62: notes.internal_order_id of an absent notes object throws a TypeError
ExtractOrderId(body) ==
    CASE body.notes = NoNotes -> "throws"
      [] body.notes = NoId -> "missing"
      [] OTHER -> body.notes

\* a router that takes every event for a payment
IsPaidEvent_any(event) == TRUE

\* line 51: event === 'payment_link.paid'
IsPaidEvent(event) == event = "payment_link.paid"

\* a handler without the guard on paymentStatus
AlreadyPaid_never(doc) == FALSE

\* a guard that lets a flagged order through for another attempt
AlreadyPaid_unlessFlagged(doc) ==
    doc.paymentStatus = "paid" /\ doc.adminStatus # "shipping_error"

\* line 71
AlreadyPaid(doc) == doc.paymentStatus = "paid"

\* An assignment to a path of the loaded document r.doc; mongoose records the path
\* as modified
Assign(r, path, value) ==
    [r EXCEPT !.doc = [@ EXCEPT ![path] = value], !.dirty = @ \cup {path}]

\* lines 76-77
\* a handler that sets the fulfilment status only
MarkPaid_statusOnly(r) == Assign(r, "status", "Placed")

MarkPaid(r) == Assign(Assign(r, "paymentStatus", "paid"), "status", "Placed")

\* shipmentDetails built without the AWB code of the reply
ShipmentDetails_noAwb(shiprocketOrder, awbData) ==
    [shipmentId |-> shiprocketOrder, awbCode |-> 0]

\* lines 94-100
ShipmentDetails(shiprocketOrder, awbData) ==
    [shipmentId |-> shiprocketOrder, awbCode |-> awbData]

\* a catch block that also takes the payment back
FlagShippingError_rollback(r) ==
    Assign(Assign(r, "adminStatus", "shipping_error"), "paymentStatus", "pending")

\* a catch block that records the shipment it has so far
FlagShippingError_withShipment(r) ==
    Assign(Assign(r, "adminStatus", "shipping_error"),
           "shipmentDetails", [shipmentId |-> r.shiprocketOrder, awbCode |-> 0])

\* lines 108-109: the catch block of the courier calls
FlagShippingError(r) == Assign(r, "adminStatus", "shipping_error")

\* a save that resolves without having written anything
Save_lost(stored, doc, dirty) == stored

\* order.save(): mongoose writes the paths modified since the document was loaded
Save(stored, doc, dirty) ==
    [f \in DOMAIN stored |-> IF f \in dirty THEN doc[f] ELSE stored[f]]

\* the order carries the flag of lines 108-109
Flagged(doc) == doc.adminStatus = "shipping_error"

\* res.status(code).json(...): the response ends the request; `after` is the store then
Respond(r, code, after) ==
    [r EXCEPT !.pc = "done", !.resp = code,
              !.final = IF r.orderId \in OrderIds THEN after[r.orderId] ELSE NoDoc]

InFlight(h) == hs[h].pc # "idle"

\* a new request takes a free slot; which one is immaterial
FreeSlot ==
    IF \A h \in Handlers : InFlight(h) THEN "none"
    ELSE CHOOSE h \in Handlers : ~InFlight(h)

\* the request of slot h goes on to its next await
Continue(h, r) ==
    /\ hs' = [hs EXCEPT ![h] = r]
    /\ UNCHANGED <<last, answered, faulted, clientVars>>

\* the request of slot h has been answered
Finish(h, r) ==
    /\ hs' = [hs EXCEPT ![h] = IdleH]
    /\ last' = r
    /\ answered' = [o \in OrderIds |-> IF o = r.orderId THEN answered[o] + 1 ELSE answered[o]]
    /\ faulted' = [o \in OrderIds |-> faulted[o] \/ (o = r.orderId /\ r.faults # {})]
    /\ UNCHANGED clientVars

\* the aggregator's reply to assignCourierAndGetAwb: the AWB code of a shipment
AwbCode(shipmentId) == 100 + shipmentId

\* PUT /api/orders/:id/status as the data model describes it: the fulfilment status
\* moves forward only
PutOrderStatus(current, requested) ==
    IF Rank(requested) > Rank(current) THEN requested ELSE current

\* -------------------------------------------------------------- the handler
\* lines 32-65: the request arrives, the signature is checked, the event is routed and
\* the order id extracted; everything up to the first await runs in one turn
Receive(h, req) ==
    /\ h = FreeSlot
    /\ deliveries < MaxDeliveries
    /\ deliveries' = deliveries + 1
    /\ LET body == JsonParse(req.raw)
           verdict == VerifySignature(req.signature, body)
           r0 == [IdleH EXCEPT !.req = req]
           r1 == [r0 EXCEPT !.inspected = TRUE]
           id == ExtractOrderId(body)
       IN  IF verdict = "throws" THEN
               /\ Finish(h, Respond(r0, 500, orders))
               /\ UNCHANGED overlap
           ELSE IF verdict = "invalid" THEN
               /\ Finish(h, Respond(r0, 400, orders))
               /\ UNCHANGED overlap
           ELSE IF ~IsPaidEvent(body.event) THEN
               /\ Finish(h, Respond(r1, 200, orders))
               /\ UNCHANGED overlap
           ELSE IF id = "throws" THEN
               /\ Finish(h, Respond([r1 EXCEPT !.faults = {"notes"}], 500, orders))
               /\ UNCHANGED overlap
           ELSE IF id = "missing" THEN
               /\ Finish(h, Respond(r1, 400, orders))
               /\ UNCHANGED overlap
           ELSE
               /\ Continue(h, [r1 EXCEPT !.pc = "findById", !.orderId = id,
                                         !.afterFlag = id \in OrderIds /\ Flagged(orders[id])])
               /\ overlap' = [o \in OrderIds |->
                                overlap[o] \/ (o = id /\ \E g \in Handlers \ {h} :
                                                  InFlight(g) /\ hs[g].orderId = o)]
    /\ UNCHANGED <<webhookSecret, orders, cart, courier, nextShipment, broadcast,
                   cartCleared, createCalls>>

\* lines 65-78: Order.findById resolves or rejects; the guard on paymentStatus; the
\* document is marked paid and Placed and its save is issued
FindById(h, ok) ==
    /\ hs[h].pc = "findById"
    /\ LET r == [hs[h] EXCEPT !.reads = @ + 1]
           id == r.orderId
       IN  IF ~ok THEN
               Finish(h, Respond([r EXCEPT !.faults = @ \cup {"findById"}], 500, orders))
           ELSE IF id \notin OrderIds THEN
               Finish(h, Respond([r EXCEPT !.found = "absent"], 404, orders))
           ELSE IF AlreadyPaid(orders[id]) THEN
               Finish(h, Respond([r EXCEPT !.found = "paid", !.doc = orders[id]], 200, orders))
           ELSE
               Continue(h, MarkPaid([r EXCEPT !.found = "unpaid", !.doc = orders[id],
                                           !.pc = "save1"]))
    /\ UNCHANGED <<webhookSecret, orders, cart, courier, nextShipment, broadcast,
                   deliveries, cartCleared, createCalls, overlap>>

\* lines 78-81: the first order.save() resolves or rejects
Save1(h, ok) ==
    /\ hs[h].pc = "save1"
    /\ LET r == hs[h]
           id == r.orderId
       IN  IF ok THEN
               /\ orders' = [orders EXCEPT ![id] = Save(@, r.doc, r.dirty)]
               /\ Continue(h, [r EXCEPT !.writes = @ + 1, !.dirty = {}, !.savedPaid = TRUE,
                                      !.pc = IF r.doc.user # NoUser THEN "cartClear"
                                             ELSE "createShipment"])
           ELSE
               /\ Finish(h, Respond([r EXCEPT !.faults = @ \cup {"save1"}], 500, orders))
               /\ UNCHANGED orders
    /\ UNCHANGED <<webhookSecret, cart, courier, nextShipment, broadcast, deliveries,
                   cartCleared, createCalls, overlap>>

\* lines 82-84: User.findByIdAndUpdate(order.user, {$set: {cart: []}}); a rejection
\* lands in the outer catch (lines 115-118)
CartClear(h, ok) ==
    /\ hs[h].pc = "cartClear"
    /\ LET r == [hs[h] EXCEPT !.cartCalls = @ + 1]
           u == r.doc.user
       IN  IF ok THEN
               /\ cart' = [cart EXCEPT ![u] = <<>>]
               /\ cartCleared' = [cartCleared EXCEPT ![u] = @ + 1]
               /\ Continue(h, [r EXCEPT !.pc = "createShipment"])
           ELSE
               /\ Finish(h, Respond([r EXCEPT !.faults = @ \cup {"cartClear"}], 500, orders))
               /\ UNCHANGED <<cart, cartCleared>>
    /\ UNCHANGED <<webhookSecret, orders, courier, nextShipment, broadcast, deliveries,
                   createCalls, overlap>>

\* lines 86-89 and 107-110: createShiprocketOrder(order) returns the new shipment or
\* rejects; a rejection flags the document and issues its save
CreateShipment(h, ok) ==
    /\ hs[h].pc = "createShipment"
    /\ LET r == [hs[h] EXCEPT !.createCalls = @ + 1]
           id == r.orderId
       IN  /\ createCalls' = [createCalls EXCEPT ![id] = @ + 1]
           /\ IF ok THEN
                  /\ courier' = [courier EXCEPT ![id] = @ + 1]
                  /\ nextShipment' = nextShipment + 1
                  /\ Continue(h, [r EXCEPT !.shiprocketOrder = nextShipment, !.pc = "assignAwb"])
              ELSE
                  /\ Continue(h, FlagShippingError([r EXCEPT !.faults = @ \cup {"createShipment"},
                                                         !.pc = "save3"]))
                  /\ UNCHANGED <<courier, nextShipment>>
    /\ UNCHANGED <<webhookSecret, orders, cart, broadcast, deliveries, cartCleared, overlap>>

\* lines 91-101 and 107-110: assignCourierAndGetAwb(shipment_id) returns the AWB data or
\* rejects; on success shipmentDetails is set and its save issued
AssignAwb(h, ok) ==
    /\ hs[h].pc = "assignAwb"
    /\ LET r == [hs[h] EXCEPT !.awbCalls = @ + 1, !.awbArg = hs[h].shiprocketOrder]
       IN  IF ok THEN
               Continue(h, Assign([r EXCEPT !.pc = "save2"], "shipmentDetails",
                                  ShipmentDetails(r.shiprocketOrder, AwbCode(r.awbArg))))
           ELSE
               Continue(h, FlagShippingError([r EXCEPT !.faults = @ \cup {"assignAwb"},
                                                         !.pc = "save3"]))
    /\ UNCHANGED <<webhookSecret, orders, cart, courier, nextShipment, broadcast,
                   deliveries, cartCleared, createCalls, overlap>>

\* lines 101-113: the save of shipmentDetails resolves (then the emit through
\* req.app.get('io') and the 200) or rejects into the catch block of lines 107-110
Save2(h, ok) ==
    /\ hs[h].pc = "save2"
    /\ LET r == hs[h]
           id == r.orderId
           io == AppGet("io")
       IN  IF ok THEN
               /\ orders' = [orders EXCEPT ![id] = Save(@, r.doc, r.dirty)]
               /\ broadcast' = IF io # "undefined" THEN Append(broadcast, <<"newOrder", id>>)
                               ELSE broadcast
               /\ Finish(h, Respond([r EXCEPT !.writes = @ + 1, !.dirty = {},
                                              !.emits = IF io # "undefined" THEN @ + 1 ELSE @],
                                    200, orders'))
           ELSE
               /\ Continue(h, FlagShippingError([r EXCEPT !.faults = @ \cup {"save2"},
                                                         !.pc = "save3"]))
               /\ UNCHANGED <<orders, broadcast>>
    /\ UNCHANGED <<webhookSecret, cart, courier, nextShipment, deliveries, cartCleared, createCalls, overlap>>

\* lines 110-118: the save of the shipping_error flag resolves (200) or rejects into
\* the outer catch (500)
Save3(h, ok) ==
    /\ hs[h].pc = "save3"
    /\ LET r == hs[h]
           id == r.orderId
       IN  IF ok THEN
               /\ orders' = [orders EXCEPT ![id] = Save(@, r.doc, r.dirty)]
               /\ Finish(h, Respond([r EXCEPT !.writes = @ + 1, !.dirty = {}], 200, orders'))
           ELSE
               /\ Finish(h, Respond([r EXCEPT !.faults = @ \cup {"save3"}], 500, orders))
               /\ UNCHANGED orders
    /\ UNCHANGED <<webhookSecret, cart, courier, nextShipment, broadcast, deliveries,
                   cartCleared, createCalls, overlap>>

\* ------------------------------------------------------ the admin dashboard
\* updateOrderStatus(orderId, newStatus): the select offers the three statuses for
\* every listed order, whatever its payment status
DashboardStatuses == {"Processing", "Shipping", "Delivered"}

updateOrderStatus(o, newStatus) ==
    /\ orders' = [orders EXCEPT ![o].status = PutOrderStatus(@, newStatus)]
    /\ hs' = [h \in Handlers |->
                IF InFlight(h) /\ hs[h].orderId = o /\ orders'[o] # orders[o]
                THEN [hs[h] EXCEPT !.interfered = TRUE] ELSE hs[h]]
    /\ UNCHANGED <<webhookSecret, cart, last, courier, nextShipment, broadcast, deliveries,
                   answered, faulted, cartCleared, createCalls, overlap, clientVars>>

\* ------------------------------------------------------- GET /:orderId
\* req.user.id as the auth middleware sets it: the owner of the orders or someone else
OtherUser == "U2"
Callers == Users \cup {OtherUser}

\* an id that is no ObjectId: Order.findById rejects with a CastError
MalformedId == "not-an-object-id"
RequestedIds == OrderIds \cup {UnknownId, MalformedId}

\* line 17: what Order.findById resolves to
Lookup(id) == IF id \in OrderIds THEN orders[id] ELSE NoDoc

\* line 22: order.user.toString() !== req.user.id
Owns(doc, caller) == doc.user = caller

\* lines 16-28: the answer to GET /:orderId; a lookup that rejects and the toString()
\* of an absent user end in the catch block
GetOrderResponse(id, doc, caller, ok) ==
    IF ~ok \/ id = MalformedId THEN [code |-> 500, body |-> NoDoc]
    ELSE IF doc = NoDoc THEN [code |-> 404, body |-> NoDoc]
    ELSE IF doc.user = NoUser THEN [code |-> 500, body |-> NoDoc]
    ELSE IF ~Owns(doc, caller) THEN [code |-> 403, body |-> NoDoc]
    ELSE [code |-> 200, body |-> doc]

\* lines 15-29: one request, answered from what the lookup returned
GetOrder(caller, id, ok) ==
    /\ LET doc == Lookup(id)
           res == GetOrderResponse(id, doc, caller, ok)
       IN  got' = [caller |-> caller, orderId |-> id, code |-> res.code,
                   body |-> res.body, seen |-> doc, ok |-> ok]
    /\ UNCHANGED <<orders, handlerVars, viewVars, dash>>

\* the orders the webhook handler and the dashboard leave in the store
ShippedDetails == ShipmentDetails(1, AwbCode(1))
PaidOrder(u) == [NewOrder(u) EXCEPT !.paymentStatus = "paid", !.status = "Placed"]
StoredOrders ==
    UNION {{NewOrder(u), PaidOrder(u),
            [PaidOrder(u) EXCEPT !.adminStatus = "shipping_error"],
            [PaidOrder(u) EXCEPT !.shipmentDetails = ShippedDetails],
            [PaidOrder(u) EXCEPT !.shipmentDetails = ShippedDetails,
                                 !.adminStatus = "shipping_error"]} : u \in Users \cup {NoUser}}

\* the handler's variables with no request in flight
HandlersIdle ==
    /\ webhookSecret = RAZORPAY_WEBHOOK_SECRET
    /\ cart = [u \in Users |-> <<"item">>]
    /\ hs = [h \in Handlers |-> IdleH]
    /\ last = IdleH
    /\ courier = [o \in OrderIds |-> 0]
    /\ nextShipment = 1
    /\ broadcast = <<>>
    /\ deliveries = 0
    /\ cartCleared = [u \in Users |-> 0]
    /\ createCalls = [o \in OrderIds |-> 0]
    /\ overlap = [o \in OrderIds |-> FALSE]
    /\ answered = [o \in OrderIds |-> 0]
    /\ faulted = [o \in OrderIds |-> FALSE]

InitGet ==
    /\ orders \in [OrderIds -> StoredOrders]
    /\ HandlersIdle
    /\ got = NoGet
    /\ ViewIdle
    /\ dash = DashIdle

NextGet ==
    \/ \E caller \in Callers, id \in RequestedIds, ok \in BOOLEAN : GetOrder(caller, id, ok)
    \/ \E o \in OrderIds, st \in DashboardStatuses : updateOrderStatus(o, st)

SpecGet == InitGet /\ [][NextGet]_vars

\* ------------------------------------------------------- the tracking view
\* the user of the session (withCredentials) and the order the location names
Viewer == CHOOSE u \in Users : TRUE
TrackedId == CHOOSE o \in OrderIds : TRUE

\* part_000 line 31: currentOrder.shipmentDetails?.awbCode
HasAwb(doc) == doc.shipmentDetails # NoShipment /\ doc.shipmentDetails.awbCode # 0

\* what the view keeps of an order reply
ViewOrder(awb) == [id |-> TrackedId, hasAwb |-> awb]

\* the replies of GET /api/shipping/track/:orderId: with tracking_data (line 33),
\* without, or a failure
TrackReplies == {"data", "nodata", "fail"}

\* a clearInterval that leaves the timer running
ClearInterval_noop(live, id) == live

\* lines 37 and 75: if (pollingIntervalRef.current) clearInterval(...)
ClearInterval(live, id) == live \ {id}

\* a guard that never lets the effect set its interval
Polls_never(st, ord) == FALSE

\* a guard that looks at the order only
Polls_anyStatus(st, ord) == ord # NoDoc

\* line 66, negated: the polling effect gets past its guard
Polls(st, ord) == st = "polling" /\ ord # NoDoc

\* a polling effect that returns no cleanup
Effect_noCleanup(st, ord, live) ==
    IF st = status /\ ((ord = NoDoc) = (order = NoDoc))
    THEN [timers |-> live, ref |-> pollingIntervalRef, next |-> nextTimer]
    ELSE IF Polls(st, ord)
         THEN [timers |-> live \cup {nextTimer}, ref |-> nextTimer, next |-> nextTimer + 1]
         ELSE [timers |-> live, ref |-> pollingIntervalRef, next |-> nextTimer]

\* lines 65-77: the polling effect after a render that takes status and order to st
\* and ord, with `live` the timers before it; the dependencies are status and
\* order?._id, the cleanup of the previous run comes first
Effect(st, ord, live) ==
    LET changed == st # status \/ ((ord = NoDoc) # (order = NoDoc))
        cleaned == IF Polls(status, order) THEN ClearInterval(live, pollingIntervalRef)
                   ELSE live
    IN  IF ~changed THEN [timers |-> live, ref |-> pollingIntervalRef, next |-> nextTimer]
        ELSE IF Polls(st, ord)
             THEN [timers |-> cleaned \cup {nextTimer}, ref |-> nextTimer,
                   next |-> nextTimer + 1]
             ELSE [timers |-> cleaned, ref |-> pollingIntervalRef, next |-> nextTimer]

\* setStatus / setOrder and the render they cause; on a view that is torn down the
\* setters do nothing
Commit(st, ord, live) ==
    IF mounted = "yes" THEN
        LET e == Effect(st, ord, live)
        IN  /\ status' = st /\ order' = ord
            /\ timers' = e.timers /\ pollingIntervalRef' = e.ref /\ nextTimer' = e.next
    ELSE
        /\ timers' = live
        /\ UNCHANGED <<status, order, pollingIntervalRef, nextTimer>>

\* a catch block that goes on polling
CatchStatus_polling == "polling"

\* line 43: setStatus('error')
CatchStatus == "error"

Issue(stage) == [calls EXCEPT ![stage] = @ + 1]
Drop(stage) == [calls EXCEPT ![stage] = @ - 1]
Move(from, to) == [calls EXCEPT ![from] = @ - 1, ![to] = @ + 1]
OrderStages == {"orderReq", "replyAwb", "replyNoAwb", "replyFail"}
InOrderStage == calls["orderReq"] + calls["replyAwb"] + calls["replyNoAwb"] + calls["replyFail"]

\* lines 49-62: the mount effect
MountView(hasId) ==
    /\ mounted = "no"
    /\ mounted' = "yes"
    /\ IF hasId THEN
           /\ calls' = Issue("orderReq")
           /\ UNCHANGED <<status, errorMessage>>
       ELSE
           /\ status' = "error"
           /\ errorMessage' = "No Order ID provided."
           /\ UNCHANGED calls
    /\ loaded' = IF hasId THEN "pending" ELSE "noId"
    /\ UNCHANGED <<orders, handlerVars, got, dash, order, trackingData, pollingIntervalRef,
                   timers, nextTimer, ticks, awbSeen, ticksAfterStop, afterTeardown, late,
                   trackRequests, wasPolling, trackReply>>

\* line 26, at the server: GET /api/orders/:orderId is answered from the store as it
\* is then
OrderServed(ok) ==
    /\ calls["orderReq"] > 0
    /\ LET res == GetOrderResponse(TrackedId, Lookup(TrackedId), Viewer, ok)
           to == IF res.code # 200 THEN "replyFail"
                 ELSE IF HasAwb(res.body) THEN "replyAwb" ELSE "replyNoAwb"
       IN  calls' = Move("orderReq", to)
    /\ UNCHANGED <<orders, handlerVars, got, dash, mounted, status, order, trackingData,
                   errorMessage, pollingIntervalRef, timers, nextTimer, ticks, awbSeen,
                   ticksAfterStop, afterTeardown, late, loaded, trackRequests,
                   wasPolling, trackReply>>

\* lines 27-45: the order reply reaches fetchOrderAndTracking: the catch block, the
\* else branch of line 40, or setOrder and the tracking request of line 32, which is
\* sent whether or not the view is still there
OrderReplied(stage) ==
    /\ calls[stage] > 0
    /\ CASE stage = "replyFail" ->
             /\ calls' = Drop(stage)
             /\ Commit(CatchStatus, order, timers)
             /\ errorMessage' = IF mounted = "yes" THEN "Could not fetch order details."
                                ELSE errorMessage
             /\ UNCHANGED <<awbSeen, afterTeardown>>
         [] stage = "replyNoAwb" ->
             /\ calls' = Drop(stage)
             /\ Commit("polling", ViewOrder(FALSE), timers)
             /\ UNCHANGED <<errorMessage, awbSeen, afterTeardown>>
         [] stage = "replyAwb" ->
             /\ calls' = Move(stage, "trackReq0")
             /\ Commit(status, ViewOrder(TRUE), timers)
             /\ awbSeen' = TRUE
             /\ afterTeardown' = IF mounted = "gone" THEN afterTeardown + 1
                                 ELSE afterTeardown
             /\ UNCHANGED errorMessage
    /\ loaded' = IF loaded # "pending" THEN loaded
                  ELSE CASE stage = "replyFail" -> "fail"
                         [] stage = "replyNoAwb" -> "noAwb"
                         [] stage = "replyAwb" -> "awb"
    /\ trackRequests' = IF stage = "replyAwb" THEN trackRequests + 1 ELSE trackRequests
    /\ wasPolling' = (wasPolling \/ status' = "polling")
    /\ UNCHANGED <<orders, handlerVars, got, dash, mounted, trackingData, ticks,
                   ticksAfterStop, late, trackReply>>

\* lines 32-45: the tracking reply: setTrackingData, setStatus('success') and
\* clearInterval, or the catch block
TrackReplied(stage, reply) ==
    /\ calls[stage] > 0
    /\ calls' = Drop(stage)
    /\ IF reply = "fail" THEN
           /\ Commit(CatchStatus, order, timers)
           /\ errorMessage' = IF mounted = "yes" THEN "Could not fetch order details."
                              ELSE errorMessage
           /\ UNCHANGED trackingData
       ELSE
           /\ trackingData' = IF mounted = "yes" /\ reply = "data" THEN "data"
                              ELSE trackingData
           /\ Commit("success", order, ClearInterval(timers, pollingIntervalRef))
           /\ UNCHANGED errorMessage
    /\ trackReply' = reply
    /\ UNCHANGED <<orders, handlerVars, got, dash, mounted, ticks, awbSeen, ticksAfterStop,
                   afterTeardown, late, loaded, trackRequests, wasPolling>>

\* lines 68-72: a live interval fires and poll() calls fetchOrderAndTracking; every
\* request still out has then been out since the tick before, or, for a tracking
\* request, since some moment of the period before
Tick ==
    /\ ticks < MaxTicks
    /\ \E t \in timers :
          /\ calls' = [s \in Stages |->
                         CASE s = "orderReq" -> calls[s] + 1
                           [] s = "trackReq0" -> 0
                           [] s = "trackReq1" -> calls["trackReq0"] + calls["trackReq1"]
                           [] OTHER -> calls[s]]
          /\ late' = (late \/ InOrderStage > 0 \/ calls["trackReq1"] > 0)
    /\ ticks' = ticks + 1
    /\ ticksAfterStop' = IF awbSeen \/ mounted = "gone" THEN ticksAfterStop + 1
                          ELSE ticksAfterStop
    /\ afterTeardown' = IF mounted = "gone" THEN afterTeardown + 1 ELSE afterTeardown
    /\ UNCHANGED <<orders, handlerVars, got, dash, mounted, status, order, trackingData,
                   errorMessage, pollingIntervalRef, timers, nextTimer, awbSeen,
                   loaded, trackRequests, wasPolling, trackReply>>

\* lines 74-76: the view is torn down and the cleanup of the polling effect runs
Unmount ==
    /\ mounted = "yes"
    /\ mounted' = "gone"
    /\ timers' = IF Polls(status, order) THEN ClearInterval(timers, pollingIntervalRef)
                  ELSE timers
    /\ UNCHANGED <<orders, handlerVars, got, dash, status, order, trackingData, errorMessage,
                   pollingIntervalRef, nextTimer, calls, ticks, awbSeen, ticksAfterStop,
                   afterTeardown, late, loaded, trackRequests, wasPolling, trackReply>>

\* orderRoutes.js lines 94-101, as the view sees it: the webhook handler stores the
\* shipment of the tracked order
ShipmentSaved ==
    /\ ~HasAwb(orders[TrackedId])
    /\ orders' = [orders EXCEPT ![TrackedId].shipmentDetails = ShippedDetails]
    /\ UNCHANGED <<handlerVars, clientVars>>

\* the view opens on a paid order of the viewer, shipped already or not yet
InitPoller ==
    /\ orders \in [OrderIds -> {PaidOrder(Viewer),
                                 [PaidOrder(Viewer) EXCEPT !.shipmentDetails = ShippedDetails]}]
    /\ HandlersIdle
    /\ got = NoGet
    /\ ViewIdle
    /\ dash = DashIdle

NextPoller ==
    \/ \E hasId \in BOOLEAN : MountView(hasId)
    \/ \E ok \in BOOLEAN : OrderServed(ok)
    \/ \E stage \in OrderStages \ {"orderReq"} : OrderReplied(stage)
    \/ \E stage \in {"trackReq0", "trackReq1"}, reply \in TrackReplies :
           TrackReplied(stage, reply)
    \/ Tick
    \/ Unmount
    \/ ShipmentSaved

SpecPoller == InitPoller /\ [][NextPoller]_vars

\* the browser fires a live interval, and a request that is out is answered and its
\* reply reaches the awaiting call
PollerFairness ==
    /\ WF_vars(Tick)
    /\ WF_vars(\E ok \in BOOLEAN : OrderServed(ok))
    /\ \A stage \in OrderStages \ {"orderReq"} : WF_vars(OrderReplied(stage))
    /\ WF_vars(\E stage \in {"trackReq0", "trackReq1"}, reply \in TrackReplies :
                  TrackReplied(stage, reply))

SpecPollerLive == InitPoller /\ [][NextPoller]_vars /\ PollerFairness

\* ------------------------------------------------- the admin orders dashboard
\* OrdersDashboard.tsx lines 147-161 and 179, OrderNotificationSound.tsx lines 13-47

\* OrderNotificationSound.tsx lines 13-47: the effect depends on onNewOrder, a new
\* function on every render of the dashboard, so each render runs the cleanup
\* (line 45, the old socket and what was on its way to it are gone) and opens a new
\* socket (line 18), which is not connected yet
OrderNotificationSound(d) ==
    [d EXCEPT !.sock["sound"] = "connecting", !.inbox["sound"] = {},
              !.soundSockets = @ + 1]

\* OrdersDashboard.tsx lines 111-114: toast, then fetchOrders() sends GET /api/orders
\* (line 71); s is the socket whose listener made the call
handleNewOrder(d, s, e) == [d EXCEPT !.handled[e] = @ + 1, !.fetches = @ + 1]

\* OrdersDashboard.tsx lines 147-150 and OrderNotificationSound.tsx line 18: the first
\* render; fetchOrders is called and both sockets are opened
MountDashboard ==
    /\ dash.mounted = "no"
    /\ dash' = [dash EXCEPT !.mounted = "yes",
                            !.sock = [s \in Sockets |-> "connecting"],
                            !.fetches = 1, !.soundSockets = 1]
    /\ UNCHANGED <<orders, handlerVars, got, viewVars>>

\* the handshake of a socket completes
Connect(s) ==
    /\ dash.sock[s] = "connecting"
    /\ dash' = [dash EXCEPT !.sock[s] = "connected"]
    /\ UNCHANGED <<orders, handlerVars, got, viewVars>>

\* orderRoutes.js line 105: io.emit('newOrder', order) goes to the sockets connected
\* at that moment, once, with no replay for a socket that connects later
EmitNewOrder ==
    /\ dash.emitted < MaxEvents
    /\ LET e == dash.emitted + 1
           to == {s \in Sockets : dash.sock[s] = "connected"}
       IN  dash' = [dash EXCEPT !.emitted = e, !.sentTo[e] = to,
                                !.inbox = [s \in Sockets |->
                                              IF s \in to THEN @[s] \cup {e} ELSE @[s]]]
    /\ UNCHANGED <<orders, handlerVars, got, viewVars>>

\* OrdersDashboard.tsx line 150 and OrderNotificationSound.tsx lines 31-42: the
\* listener of a socket runs for an event that reached it; both end in handleNewOrder
Deliver(s, e) ==
    /\ e \in dash.inbox[s]
    /\ dash' = handleNewOrder([dash EXCEPT !.inbox[s] = @ \ {e}], s, e)
    /\ UNCHANGED <<orders, handlerVars, got, viewVars>>

\* OrdersDashboard.tsx lines 72-80: a GET /api/orders is answered. On success
\* setOrders, setFiltered and setLoading render the dashboard, and the effect of line
\* 163 sets the filtered list again, which renders it once more; on failure only
\* setLoading(false) is called, which renders if loading was true
FetchReplied(ok) ==
    /\ dash.fetches > 0
    /\ LET d == [dash EXCEPT !.fetches = @ - 1]
       IN  dash' = IF dash.mounted # "yes" THEN d
                   ELSE IF ok
                        THEN OrderNotificationSound([d EXCEPT !.loading = FALSE,
                                                              !.renderDue = TRUE])
                   ELSE IF dash.loading
                        THEN OrderNotificationSound([d EXCEPT !.loading = FALSE])
                   ELSE d
    /\ UNCHANGED <<orders, handlerVars, got, viewVars>>

\* OrdersDashboard.tsx lines 163 and 107-108: the render the filter effect asked for
Render ==
    /\ dash.mounted = "yes"
    /\ dash.renderDue
    /\ dash' = OrderNotificationSound([dash EXCEPT !.renderDue = FALSE])
    /\ UNCHANGED <<orders, handlerVars, got, viewVars>>

\* OrdersDashboard.tsx lines 157-160 and OrderNotificationSound.tsx lines 44-46: both
\* cleanups disconnect
UnmountDashboard ==
    /\ dash.mounted = "yes"
    /\ dash' = [dash EXCEPT !.mounted = "gone",
                            !.sock = [s \in Sockets |-> "none"],
                            !.inbox = [s \in Sockets |-> {}],
                            !.renderDue = FALSE]
    /\ UNCHANGED <<orders, handlerVars, got, viewVars>>

InitDashboard ==
    /\ orders = [o \in OrderIds |-> PaidOrder(Viewer)]
    /\ HandlersIdle
    /\ got = NoGet
    /\ ViewIdle
    /\ dash = DashIdle

NextDashboard ==
    \/ MountDashboard
    \/ \E s \in Sockets : Connect(s)
    \/ EmitNewOrder
    \/ \E s \in Sockets, e \in NewOrderEvents : Deliver(s, e)
    \/ \E ok \in BOOLEAN : FetchReplied(ok)
    \/ Render
    \/ UnmountDashboard

SpecDashboard == InitDashboard /\ [][NextDashboard]_vars

\* ------------------------------------------------------------ specification
Next ==
    \/ \E h \in Handlers, req \in Requests : Receive(h, req)
    \/ \E h \in Handlers, ok \in BOOLEAN : FindById(h, ok)
    \/ \E h \in Handlers, ok \in BOOLEAN : Save1(h, ok)
    \/ \E h \in Handlers, ok \in BOOLEAN : CartClear(h, ok)
    \/ \E h \in Handlers, ok \in BOOLEAN : CreateShipment(h, ok)
    \/ \E h \in Handlers, ok \in BOOLEAN : AssignAwb(h, ok)
    \/ \E h \in Handlers, ok \in BOOLEAN : Save2(h, ok)
    \/ \E h \in Handlers, ok \in BOOLEAN : Save3(h, ok)
    \/ \E o \in OrderIds, s \in DashboardStatuses : updateOrderStatus(o, s)

Spec == Init /\ [][Next]_vars

\* ================================================================== claims
Answered == last.pc = "done"
Is2xx(code) == code \in 200..299
NoneInFlightFor(o) == \A h \in Handlers : ~(InFlight(h) /\ hs[h].orderId = o)

\* the signature header is missing, or differs from the HMAC the handler computes, or
\* the HMAC cannot be computed
SigBad(req) ==
    \/ webhookSecret = "undefined"
    \/ req.signature = NoSig
    \/ req.signature # Hmac(webhookSecret, JsonStringify(JsonParse(req.raw)))

\* the request a Receive step has just taken in: in its slot, or answered at once
Received(h) == IF hs'[h].pc # "idle" THEN hs'[h] ELSE last'

C2_BadSignatureRejected ==
    [][deliveries' # deliveries =>
         LET r == Received(FreeSlot)
         IN  SigBad(r.req) =>
                 /\ r.pc = "done" /\ r.resp \in {400, 500}
                 /\ ~r.inspected /\ r.reads = 0 /\ r.writes = 0
                 /\ orders' = orders /\ cart' = cart /\ cartCleared' = cartCleared
                 /\ courier' = courier /\ createCalls' = createCalls
                 /\ broadcast' = broadcast]_vars

C2_Witness ==
    /\ Answered /\ webhookSecret # "undefined"
    /\ last.req.signature = Hmac(ForgerSecret, last.req.raw)
    /\ JsonParse(last.req.raw).event = "payment_link.paid"
    /\ JsonParse(last.req.raw).notes \in OrderIds
    /\ last.resp = 400

\* C3: once the stored paymentStatus of an order is 'paid', no step changes it.
C3_PaidIsFinal ==
    [][\A o \in OrderIds :
          orders[o].paymentStatus = "paid" => orders'[o].paymentStatus = "paid"]_vars

C3_Witness ==
    \E o \in OrderIds :
        /\ orders[o].paymentStatus = "paid" /\ orders[o].adminStatus = "shipping_error"
        /\ answered[o] = 2 /\ faulted[o]
        /\ Answered /\ last.orderId = o /\ last.found = "paid"

\* C4 as stated: the fulfilment status of an order never moves backward in
\* Created, Placed, Processing, Shipping, Delivered.
C4_StatusNeverMovesBack ==
    [][\A o \in OrderIds : Rank(orders'[o].status) >= Rank(orders[o].status)]_vars

\* C5 as stated: a delivery in which createShiprocketOrder rejected is answered 200
\* and leaves the order paid and flagged shipping_error.
C5_CreateFailureIsolated ==
    (Answered /\ "createShipment" \in last.faults)
    => /\ last.resp = 200
       /\ last.final.paymentStatus = "paid"
       /\ last.final.adminStatus = "shipping_error"

\* C6 as stated: a delivery in which assignCourierAndGetAwb rejected is answered 200
\* and leaves the order paid, flagged shipping_error and without an AWB code.
C6_AwbFailureIsolated ==
    (Answered /\ "assignAwb" \in last.faults)
    => /\ last.resp = 200
       /\ last.final.paymentStatus = "paid"
       /\ last.final.adminStatus = "shipping_error"
       /\ ~HasAwb(last.final)

\* C7: a delivery that found the order unpaid, in which no call failed and during
\* which no other delivery for the order and no dashboard update came in, is
\* answered 200 and leaves the order paid and Placed, with one createShiprocketOrder
\* call, one assignCourierAndGetAwb call and the AWB code of the courier's reply.
C7_HappyPath ==
    (/\ Answered /\ last.found = "unpaid" /\ last.faults = {}
     /\ ~last.interfered /\ ~overlap[last.orderId])
    => /\ last.resp = 200
       /\ last.final.paymentStatus = "paid" /\ last.final.status = "Placed"
       /\ last.createCalls = 1 /\ last.awbCalls = 1
       /\ createCalls[last.orderId] = 1
       /\ last.shiprocketOrder > 0
       /\ HasAwb(last.final)
       /\ last.final.shipmentDetails.shipmentId = last.shiprocketOrder
       /\ last.final.shipmentDetails.awbCode = AwbCode(last.shiprocketOrder)

C7_Witness ==
    /\ Answered /\ last.found = "unpaid" /\ last.faults = {}
    /\ ~last.interfered /\ ~overlap[last.orderId]
    /\ last.resp = 200 /\ HasAwb(orders[last.orderId])

\* C8 as stated: a delivery that moved the order to paid with both courier calls and
\* both saves succeeding has broadcast 'newOrder' exactly once.
C8_NewOrderBroadcastOnce ==
    (Answered /\ last.found = "unpaid" /\ last.faults = {})
    => /\ last.emits = 1
       /\ \E i \in 1..Len(broadcast) : broadcast[i] = <<"newOrder", last.orderId>>

\* C9 as stated: a delivery whose save of paymentStatus 'paid' completed is answered
\* with a 2xx status.
C9_PaidSavedThen2xx ==
    (Answered /\ last.savedPaid) => Is2xx(last.resp)

\* C10 as stated: a delivery whose cart clear failed has gone on to call
\* createShiprocketOrder and is answered 200 like one whose cart clear succeeded.
C10_CartClearFailureContinues ==
    (Answered /\ "cartClear" \in last.faults)
    => /\ last.createCalls >= 1
       /\ last.resp = 200

\* C11: within a delivery, createShiprocketOrder is called only after the save of
\* 'paid'/'Placed' has completed, assignCourierAndGetAwb only after
\* createShiprocketOrder has returned a shipment and with that shipment's id, and at
\* every courier call the stored paymentStatus of the order is 'paid'.
C11_StepsInOrder ==
    [][\A h \in Handlers :
          LET r == hs[h]
              r2 == hs'[h]
          IN  (InFlight(h) /\ r2.pc # "idle") =>
                 /\ r2.createCalls > r.createCalls =>
                        /\ r.savedPaid /\ r.writes >= 1 /\ r.awbCalls = 0
                        /\ orders[r.orderId].paymentStatus = "paid"
                 /\ r2.awbCalls > r.awbCalls =>
                        /\ r.createCalls = 1 /\ "createShipment" \notin r.faults
                        /\ r.shiprocketOrder > 0 /\ r.shiprocketOrder < nextShipment
                        /\ r2.awbArg = r.shiprocketOrder
                        /\ orders[r.orderId].paymentStatus = "paid"]_vars

C11_Witness ==
    /\ Answered /\ last.savedPaid /\ last.createCalls = 1 /\ last.awbCalls = 1
    /\ last.awbArg > 0 /\ last.awbArg = last.shiprocketOrder

\* C12: a request whose signature the handler accepts and whose event is not
\* payment_link.paid is answered 200 in the step that receives it, with no order
\* read or written, and the orders, the carts, the courier and the broadcast channel
\* are as they were.
C12_OtherEventAcknowledged ==
    [][deliveries' # deliveries =>
         LET r == Received(FreeSlot)
         IN  (~SigBad(r.req) /\ JsonParse(r.req.raw).event # "payment_link.paid") =>
                 /\ r.pc = "done" /\ r.resp = 200
                 /\ r.reads = 0 /\ r.writes = 0 /\ r.cartCalls = 0
                 /\ r.createCalls = 0 /\ r.awbCalls = 0 /\ r.emits = 0
                 /\ orders' = orders /\ cart' = cart /\ cartCleared' = cartCleared
                 /\ courier' = courier /\ createCalls' = createCalls
                 /\ nextShipment' = nextShipment /\ broadcast' = broadcast]_vars

C12_Witness ==
    /\ Answered /\ ~SigBad(last.req)
    /\ JsonParse(last.req.raw).event = "payment.captured"
    /\ last.resp = 200 /\ last.inspected
    /\ \E o \in OrderIds : orders[o].paymentStatus = "paid"

\* C13 as stated: an accepted payment_link.paid request without an internal order id,
\* the notes being absent included, is answered 400; one whose id the lookup finds
\* no order for is answered 404; in both cases no order was written and no cart,
\* courier or broadcast call made.
C13_MissingIdIs400UnknownIs404 ==
    (/\ Answered /\ ~SigBad(last.req)
     /\ JsonParse(last.req.raw).event = "payment_link.paid")
    => LET notes == JsonParse(last.req.raw).notes
       IN  /\ notes \in {NoId, NoNotes} => last.resp = 400
           /\ (notes = UnknownId /\ last.found = "absent") => last.resp = 404
           /\ notes \notin OrderIds =>
                  /\ last.writes = 0 /\ last.cartCalls = 0 /\ last.createCalls = 0
                  /\ last.awbCalls = 0 /\ last.emits = 0

\* C14 as stated: a request whose signature header is the HMAC of its raw body under
\* the configured secret passes the signature check, whatever the form of the raw
\* body.
C14_RawBodySignatureAccepted ==
    (/\ Answered /\ webhookSecret # "undefined"
     /\ last.req.signature = Hmac(webhookSecret, last.req.raw))
    => last.inspected

\* a step in which the request of slot h is answered after one more write to the order
WrittenBy(h) ==
    /\ InFlight(h) /\ hs'[h].pc = "idle"
    /\ last'.orderId = hs[h].orderId /\ last'.writes = hs[h].writes + 1

\* C18: in every state an order with shipmentDetails is paid and its shipmentDetails
\* name a shipment the courier created together with that shipment's AWB code, and
\* every step that changes an order's shipmentDetails is the save of a delivery in
\* which createShiprocketOrder and assignCourierAndGetAwb were each called once and
\* both returned.
C18_ShipmentOnlyAfterPaidAndCourier ==
    /\ [](\A o \in OrderIds :
            orders[o].shipmentDetails # NoShipment =>
                /\ orders[o].paymentStatus = "paid"
                /\ orders[o].shipmentDetails.shipmentId \in 1..(nextShipment - 1)
                /\ orders[o].shipmentDetails.awbCode =
                       AwbCode(orders[o].shipmentDetails.shipmentId))
    /\ [][\A o \in OrderIds :
            orders'[o].shipmentDetails # orders[o].shipmentDetails =>
                \E h \in Handlers :
                    /\ hs[h].orderId = o /\ WrittenBy(h)
                    /\ hs[h].savedPaid
                    /\ hs[h].createCalls = 1 /\ hs[h].awbCalls = 1
                    /\ hs[h].faults \cap {"createShipment", "assignAwb"} = {}
                    /\ orders'[o].shipmentDetails =
                           ShipmentDetails(hs[h].shiprocketOrder,
                                           AwbCode(hs[h].shiprocketOrder))]_vars

C18_Witness ==
    \E o \in OrderIds :
        /\ HasAwb(orders[o]) /\ Flagged(orders[o])
        /\ Answered /\ last.orderId = o /\ "save2" \in last.faults /\ last.resp = 200

\* C19: the shipping_error flag of an order is never cleared; a delivery received
\* while the order is flagged writes nothing to the order and calls neither the cart
\* nor the courier; and no delivery calls createShiprocketOrder or
\* assignCourierAndGetAwb twice, or assignCourierAndGetAwb after a failed
\* createShiprocketOrder.
C19_NoRetryOnceFlagged ==
    /\ [][\A o \in OrderIds : Flagged(orders[o]) => Flagged(orders'[o])]_vars
    /\ [](\A r \in {hs[h] : h \in Handlers} \cup {last} :
            /\ r.afterFlag =>
                   /\ r.found \in {"none", "paid"}
                   /\ r.writes = 0 /\ r.cartCalls = 0
                   /\ r.createCalls = 0 /\ r.awbCalls = 0 /\ r.emits = 0
            /\ r.createCalls <= 1 /\ r.awbCalls <= 1
            /\ "createShipment" \in r.faults => r.awbCalls = 0)

C19_Witness ==
    /\ Answered /\ last.afterFlag /\ last.found = "paid" /\ last.resp = 200
    /\ Flagged(orders[last.orderId]) /\ createCalls[last.orderId] = 1

\* C20: an order gets a second createShiprocketOrder call, a second shipment or a
\* second cart clear only when two deliveries for it were in flight together; the
\* witness is the state such an interleaving ends in.
C20_DuplicatesOnlyFromRace ==
    \A o \in OrderIds :
        (\/ createCalls[o] > 1 \/ courier[o] > 1
         \/ (orders[o].user # NoUser /\ cartCleared[orders[o].user] > 1))
        => overlap[o]

C20_Witness ==
    \E o \in OrderIds, h \in Handlers :
        /\ overlap[o] /\ orders[o].user # NoUser
        /\ hs[h].orderId = o /\ hs[h].found = "unpaid" /\ hs[h].shiprocketOrder = 2
        /\ Answered /\ last.orderId = o /\ last.found = "unpaid"
        /\ last.shiprocketOrder = 1
        /\ cartCleared[orders[o].user] = 2 /\ createCalls[o] = 2 /\ courier[o] = 2

\* C17 as stated, for the requests the store was up for and the orders that have a
\* user: GET /:orderId answers 404 when no order has the id, 403 when the order's user is not the caller,
\* and 200 with the order document when the caller owns it; the body goes to the
\* owner only and the step leaves the store alone.
C17_GetOrderByOwnerOnly ==
    (got # NoGet /\ got.ok /\ (got.seen = NoDoc \/ got.seen.user # NoUser)) =>
        /\ got.orderId \notin OrderIds => got.code = 404
        /\ (got.seen # NoDoc /\ got.seen.user # got.caller) => got.code = 403
        /\ (got.seen # NoDoc /\ got.seen.user = got.caller)
               => (got.code = 200 /\ got.body = got.seen)
        /\ got.body # NoDoc => got.seen.user = got.caller

\* C15 as stated: once an order reply has shown an AWB code, or the view has been
\* torn down, at most one further tick issues a fetch.
C15_StopsWithinOneTick == ticksAfterStop <= 1

\* C15 as amended: while the view is mounted and polling, exactly one interval timer
\* is live, and every tick issues one order fetch from a mounted view; after the
\* teardown and in status 'success' no timer is live; and as long as no request has
\* been outstanding for a whole tick period, at most one tick has issued a fetch
\* since the first order reply with an AWB code.
C15_StopsWithinOneTickIfTimely ==
    /\ [](/\ (mounted = "yes" /\ Polls(status, order)) => timers = {pollingIntervalRef}
          /\ mounted = "gone" => timers = {}
          /\ status = "success" => timers = {}
          /\ ~late => ticksAfterStop <= 1)
    /\ [][ticks' # ticks =>
             /\ mounted = "yes" /\ Polls(status, order)
             /\ calls'["orderReq"] = calls["orderReq"] + 1]_vars

C15_Witness ==
    /\ mounted = "yes" /\ ~late /\ awbSeen /\ ticks >= 2 /\ ticksAfterStop = 1
    /\ status = "success" /\ timers = {}
    /\ \A s \in Stages : calls[s] = 0

\* C16 as stated: no HTTP request is issued after the view has been torn down.
C16_NoRequestAfterTeardown == afterTeardown = 0


\* C21 as stated: a delivery answered with a non-2xx status has written nothing to
\* the order and has not cleared the cart.
C21_Non2xxLeavesStoreAlone ==
    (Answered /\ ~Is2xx(last.resp))
    => /\ last.writes = 0
       /\ (last.cartCalls = 0 \/ "cartClear" \in last.faults)

\* C27 as stated: no stored order has both an AWB code and adminStatus
\* 'shipping_error'.
C27_NoAwbWithShippingError ==
    \A o \in OrderIds : ~(HasAwb(orders[o]) /\ Flagged(orders[o]))

\* C28 as stated: with no handler in progress for it, a paid order has shipmentDetails
\* or adminStatus 'shipping_error'.
C28_PaidIsShippedOrFlagged ==
    \A o \in OrderIds :
        (NoneInFlightFor(o) /\ orders[o].paymentStatus = "paid")
        => (orders[o].shipmentDetails # NoShipment \/ Flagged(orders[o]))


NoCallInFlight == \A stage \in Stages : calls[stage] = 0

\* C22: when the reply to the first order fetch carries an AWB code, the tracking
\* endpoint is requested once and only once, status is never 'polling', no interval
\* timer is ever started and no tick fires; on a mounted view status stays 'loading'
\* until the tracking reply comes in and is 'success' from then on, with or without
\* tracking_data in the reply (a tracking request that fails ends in 'error').
C22_AwbOnFirstFetch ==
    loaded = "awb" =>
        /\ trackRequests = 1 /\ ~wasPolling
        /\ nextTimer = 1 /\ timers = {} /\ pollingIntervalRef = 0 /\ ticks = 0
        /\ calls["orderReq"] = 0 /\ InOrderStage = 0
        /\ mounted = "yes" =>
               /\ trackReply = "none" =>
                      (status = "loading" /\ calls["trackReq0"] = 1)
               /\ trackReply \in {"data", "nodata"} =>
                      (status = "success" /\ NoCallInFlight)
               /\ trackReply = "nodata" => trackingData = "null"
               /\ trackReply = "fail" => status = "error"

C22_Witness ==
    /\ loaded = "awb" /\ mounted = "yes" /\ trackReply = "nodata"
    /\ status = "success" /\ trackRequests = 1 /\ trackingData = "null"


\* C23: when the initial load has no order id, or its order fetch fails, no timer is
\* ever started, no tick fires, no further request is sent, and a mounted view is in
\* 'error' with its message in every later state, whatever happens to the order.
C23_InitialFailureIsFinal ==
    loaded \in {"noId", "fail"} =>
        /\ nextTimer = 1 /\ timers = {} /\ pollingIntervalRef = 0 /\ ticks = 0
        /\ NoCallInFlight /\ trackRequests = 0 /\ ~wasPolling
        /\ mounted = "yes" => (status = "error" /\ errorMessage # "")

C23_Witness ==
    /\ loaded = "fail" /\ mounted = "yes" /\ status = "error"
    /\ HasAwb(orders[TrackedId])

\* C24: in every state at most one interval timer is live, a live timer is the one
\* pollingIntervalRef names and the view is then mounted in 'polling'; every step
\* that takes status out of 'polling' and the teardown leave no timer live.
C24_OneTimerOnlyWhilePolling ==
    /\ [](/\ Cardinality(timers) <= 1
          /\ timers # {} => /\ mounted = "yes" /\ status = "polling"
                             /\ timers = {pollingIntervalRef})
    /\ [][(\/ (status = "polling" /\ status' # "polling")
           \/ (mounted = "yes" /\ mounted' = "gone")) => timers' = {}]_vars

C24_Witness ==
    /\ mounted = "yes" /\ status = "polling" /\ nextTimer = 3
    /\ timers = {2} /\ pollingIntervalRef = 2


CallsInFlight ==
    calls["orderReq"] + calls["replyAwb"] + calls["replyNoAwb"] + calls["replyFail"]
    + calls["trackReq0"] + calls["trackReq1"]

\* C25 as stated, for the runs in which no request has been outstanding for a whole
\* tick period: at most one fetchOrderAndTracking call is in flight.
C25_OneFetchInFlight == ~late => CallsInFlight <= 1

\* C29 as stated, for the runs in which no request has been outstanding for a whole
\* tick period: no step takes status from 'success' to another value or starts a
\* timer while status is 'success'.
C29_SuccessIsFinal ==
    [][(status = "success" /\ ~late') => (status' = "success" /\ timers' = {})]_vars


\* a request has just failed: its failure is on the way back, or was the last
\* tracking reply
RequestFailed == calls["replyFail"] > 0 \/ trackReply = "fail"

\* C26: from a state in which the view is mounted in 'polling', the stored order has
\* an AWB code and the timer can still fire, the view reaches 'success' unless it is
\* torn down or a request fails, and it settles there for good when moreover no
\* request stays out for a whole tick period; in 'success' no timer is live, so no
\* further fetch is started; and while the view is mounted in 'polling' the timer stays ready to
\* fire, an order reply without AWB code leaving status and timer as they are: the
\* code puts no limit on the number of attempts.
C26_PollingEndsWithAwb ==
    /\ (mounted = "yes" /\ status = "polling" /\ HasAwb(orders[TrackedId])
         /\ ticks < MaxTicks)
           ~> (status = "success" \/ mounted = "gone" \/ RequestFailed)
    /\ (mounted = "yes" /\ status = "polling" /\ HasAwb(orders[TrackedId])
         /\ ticks < MaxTicks)
           ~> (\/ mounted = "gone" \/ RequestFailed \/ late
               \/ [](status = "success" /\ timers = {}))
    /\ [](status = "success" => (timers = {} /\ ~ENABLED Tick))
    /\ []((mounted = "yes" /\ status = "polling" /\ ticks < MaxTicks) => ENABLED Tick)
    /\ [][(mounted = "yes" /\ status = "polling"
            /\ calls'["replyNoAwb"] < calls["replyNoAwb"])
           => (status' = "polling" /\ timers' = timers /\ timers # {})]_vars

C26_Witness ==
    /\ mounted = "yes" /\ loaded = "noAwb" /\ wasPolling /\ ticks = MaxTicks
    /\ status = "success" /\ timers = {} /\ NoCallInFlight /\ ~RequestFailed


\* a newOrder event that was broadcast while the dashboard's own socket was
\* connected and is no longer on its way to either socket
Settled(e) ==
    /\ e <= dash.emitted
    /\ "own" \in dash.sentTo[e]
    /\ \A s \in Sockets : e \notin dash.inbox[s]

\* C30: on the mounted dashboard every newOrder event broadcast to it causes exactly
\* one handleNewOrder call, hence one re-fetch of the order list: not two although
\* both sockets listen, and not none although the notification socket is re-created
\* on every render.
C30_OneRefetchPerEvent ==
    dash.mounted = "yes" =>
        \A e \in NewOrderEvents : Settled(e) => dash.handled[e] = 1

====
